---- MODULE Spec2Model ----
(***************************************************************************)
(* State-machine model of the juno-rag-chatbot service: the FastAPI        *)
(* handlers of main_simple.py (/chat, /upload-doc, /list-docs,             *)
(* /delete-doc, /health), the ingestion and deletion helpers of            *)
(* chroma_utils.py and the retrieval/generation chain of                   *)
(* langchain_utils.py.                                                     *)
(*                                                                         *)
(* Scheduling.  upload_document is an `async def`: it runs on the event    *)
(* loop thread and gives the loop back only at `await file.read()`.  The   *)
(* other handlers are plain `def`: the loop accepts the request, a worker  *)
(* thread runs the handler, and the loop sends the response.  Variable     *)
(* `loop` holds the index of the upload that occupies the event loop       *)
(* thread, or 0 when the loop is free to accept and answer requests.       *)
(* Worker-thread steps interleave freely with whatever the loop does.      *)
(***************************************************************************)
EXTENDS Integers, Sequences, FiniteSets, TLC

(* ------------------------------ bounds -------------------------------- *)

\* Requests the service receives in one behaviour.
MaxRequests == 3
\* Requests being handled at the same time.
MaxInFlight == 2
\* Pages an uploaded PDF holds at most.
MaxChunks == 2

(* ------------------------------ inputs -------------------------------- *)

\* File names as character tuples, so that splitext, lower and endswith
\* are computed.
FileNames ==
    { <<"a", ".", "t", "x", "t">>,
      <<"a", ".", "p", "d", "f">>,
      <<"a", ".", "T", "X", "T">>,
      <<"a", ".", "x", "y", "z">> }

\* Texts, as character tuples: "sky", "sea\n", "sun".  The i-th page of
\* every PDF is the i-th of them.
UnitTexts ==
    << <<"s", "k", "y">>, <<"s", "e", "a", "\n">>, <<"s", "u", "n">> >>

UnitAt(i) == UnitTexts[((i - 1) % Len(UnitTexts)) + 1]

\* What a PDF can hold: its first n pages, n \in 1..MaxChunks.  The loader
\* returns one document per page.
PageContents == { [i \in 1..n |-> UnitAt(i)] : n \in 1..MaxChunks }

\* What a text file can hold: "", "sky" or "sea\n".  It is read as one
\* text.
TextContents == { << <<>> >>, <<UnitAt(1)>>, <<UnitAt(2)>> }

\* What a file can hold, as the texts that reach the splitter.
Contents == PageContents \cup TextContents

Questions == {"sky", "sea"}

\* session_id of a QueryInput; "" stands for a missing (None) or empty one.
SessionInputs == {"", "s1"}

\* What uuid.uuid4() can return.
UUIDs == {"uuid-1"}

Models == {"gemini-2.5-flash"}

\* file_id of a DeleteFileRequest.
DeleteIds == 1..(MaxRequests - 1)

(* --------------------------- string helpers --------------------------- *)

RECURSIVE ToStr(_)
\* The Python str a character tuple stands for.
ToStr(t) == IF t = <<>> THEN "" ELSE Head(t) \o ToStr(Tail(t))

\* str.lower() on one character.
LowerChar(c) ==
    CASE c = "T" -> "t"
      [] c = "X" -> "x"
      [] c = "A" -> "a"
      [] c = "P" -> "p"
      [] c = "D" -> "d"
      [] c = "F" -> "f"
      [] OTHER -> c

Lower(t) == [i \in 1..Len(t) |-> LowerChar(t[i])]

\* str.endswith
endswith(t, suffix) ==
    /\ Len(suffix) <= Len(t)
    /\ SubSeq(t, Len(t) - Len(suffix) + 1, Len(t)) = suffix

\* os.path.splitext(name)[1]: from the last dot on, unless that dot only
\* leads the name.
splitext_ext(name) ==
    LET dots == { i \in 1..Len(name) : name[i] = "." } IN
    IF dots = {} THEN <<>>
    ELSE LET last == CHOOSE i \in dots : \A j \in dots : j <= i IN
         IF \A j \in 1..(last - 1) : name[j] = "." THEN <<>>
         ELSE SubSeq(name, last, Len(name))

EXT_PDF == <<".", "p", "d", "f">>
EXT_DOCX == <<".", "d", "o", "c", "x">>
EXT_HTML == <<".", "h", "t", "m", "l">>
EXT_TXT == <<".", "t", "x", "t">>

\* Mutant of allowed_extensions: .xyz is let through.
allowed_extensions_xyz ==
    {EXT_PDF, EXT_DOCX, EXT_HTML, EXT_TXT, <<".", "x", "y", "z">>}

\* main_simple.py line 244
allowed_extensions == {EXT_PDF, EXT_DOCX, EXT_HTML, EXT_TXT}

\* main_simple.py line 256
upload_path(filename) == <<"uploads/">> \o filename

\* What a file of the given name can hold.
FileContents(filename) ==
    IF endswith(Lower(filename), EXT_PDF) THEN PageContents
    ELSE TextContents

(* ----------------------------- chroma_utils --------------------------- *)

\* RecursiveCharacterTextSplitter(chunk_size=1000, chunk_overlap=200,
\* length_function=len)
chunk_size == 1000
chunk_overlap == 200

\* What str.strip() removes.
is_space(c) == c \in {" ", "\n", "\t", "\r"}

\* str.strip()
strip(text) ==
    LET kept == { i \in 1..Len(text) : ~is_space(text[i]) } IN
    IF kept = {} THEN <<>>
    ELSE SubSeq(text, CHOOSE i \in kept : \A j \in kept : i <= j,
                      CHOOSE i \in kept : \A j \in kept : j <= i)

\* text_splitter.split_text(text) for a text shorter than chunk_size (a
\* longer one is not among the inputs of this model).  The splitter keeps
\* its defaults keep_separator=True and strip_whitespace=True: the pieces
\* it cuts the text into at the first separator found are all shorter
\* than chunk_size, so they are merged back into the whole text; the
\* merged text is stripped, and dropped when nothing is left of it.
text_splitter_split_text(text) ==
    CASE Len(text) < chunk_size ->
        IF strip(text) = <<>> THEN <<>> ELSE <<ToStr(strip(text))>>

RECURSIVE text_splitter_split(_)
\* The chunks of a sequence of texts, in order: split_text on the text of
\* a text file (line 35), split_documents on the documents of a loader
\* (line 43), which splits each document's text by split_text.
text_splitter_split(units) ==
    IF units = <<>> THEN <<>>
    ELSE text_splitter_split_text(Head(units))
            \o text_splitter_split(Tail(units))

\* Document(page_content=chunk, metadata={"source": file_path})
Document(chunk, path) ==
    [page_content |-> chunk, metadata |-> [source |-> ToStr(path)]]

\* load_and_split_document: the documents it returns, or the ValueError it
\* raises for a path that ends with none of the four suffixes.
load_and_split_document(file_path, units) ==
    IF \/ endswith(file_path, EXT_PDF)
       \/ endswith(file_path, EXT_DOCX)
       \/ endswith(file_path, EXT_HTML)
       \/ endswith(file_path, EXT_TXT)
    THEN [raised |-> FALSE, error |-> "",
          docs |-> LET chunks == text_splitter_split(units) IN
                   [i \in 1..Len(chunks) |-> Document(chunks[i], file_path)]]
    ELSE [raised |-> TRUE,
          error |-> "Unsupported file type: " \o ToStr(file_path),
          docs |-> <<>>]

\* split.metadata['file_id'] = file_id
with_file_id(split, file_id) ==
    [page_content |-> split.page_content,
     metadata |-> [k \in DOMAIN split.metadata \cup {"file_id"} |->
                     IF k = "file_id" THEN file_id ELSE split.metadata[k]]]

tag_splits(splits, file_id) ==
    [i \in 1..Len(splits) |-> with_file_id(splits[i], file_id)]

\* vectorstore.add_documents(splits) when it returns: every split is stored,
\* after the records already there.
add_documents(coll, splits) == coll \o splits

\* index_document_to_chroma when no call inside its try block fails for a
\* reason outside the program: True with every chunk stored, or False with
\* nothing stored when the loader rejects the path.
index_document_to_chroma_impl(coll, file_path, units, file_id) ==
    LET loaded == load_and_split_document(file_path, units) IN
    IF loaded.raised
    THEN [success |-> FALSE, collection |-> coll, splits |-> <<>>]
    ELSE [success |-> TRUE,
          collection |-> add_documents(coll, tag_splits(loaded.docs, file_id)),
          splits |-> tag_splits(loaded.docs, file_id)]

\* index_document_to_chroma when the loader (unreadable file) or the
\* embedding/store call raises: the except branch returns False; of the
\* chunks, the first n may already be stored.  No rollback follows.
index_document_to_chroma_fault(coll, file_path, units, file_id) ==
    LET loaded == load_and_split_document(file_path, units)
        tagged == tag_splits(loaded.docs, file_id)
        most   == IF Len(tagged) = 0 THEN 0 ELSE Len(tagged) - 1
    IN  { [success |-> FALSE,
           collection |-> add_documents(coll, SubSeq(tagged, 1, n)),
           splits |-> tagged]
          : n \in 0..most }

\* Mutant of collection_delete: the where filter is dropped.
collection_delete_unfiltered(coll, file_id) == <<>>

\* vectorstore._collection.delete(where={"file_id": file_id})
collection_delete(coll, file_id) ==
    SelectSeq(coll, LAMBDA r : r.metadata.file_id # file_id)

\* Mutant of delete_doc_from_chroma: a file_id with no record is an error.
delete_doc_from_chroma_strict(coll, file_id) ==
    [success |-> \E n \in 1..Len(coll) : coll[n].metadata.file_id = file_id,
     collection |-> collection_delete(coll, file_id)]

\* delete_doc_from_chroma: a where-filter that matches nothing is not an
\* error for the collection, so the try block returns True.
delete_doc_from_chroma_impl(coll, file_id) ==
    [success |-> TRUE, collection |-> collection_delete(coll, file_id)]

(* ---------------------------- langchain_utils ------------------------- *)

\* search_kwargs={"k": 2}
RETRIEVER_K == 2

\* embedding_function: a deterministic text -> vector map (one dimension
\* is enough to order the records of the model).
embed(text) ==
    CASE text = "sky" -> 1
      [] text = "sea" -> 2
      [] text = "sun" -> 3
      [] OTHER -> 0

distance(a, b) == IF embed(a) >= embed(b) THEN embed(a) - embed(b)
                  ELSE embed(b) - embed(a)

RECURSIVE nearest(_, _, _, _)
\* The indices of the k records nearest to the query among those not in
\* `taken`, nearest first, the earlier inserted first among equals.
nearest(coll, query, k, taken) ==
    LET left == (1..Len(coll)) \ taken IN
    IF k = 0 \/ left = {} THEN <<>>
    ELSE LET best == CHOOSE i \in left : \A j \in left :
                        \/ distance(query, coll[i].page_content)
                             < distance(query, coll[j].page_content)
                        \/ /\ distance(query, coll[i].page_content)
                                = distance(query, coll[j].page_content)
                           /\ i <= j
         IN <<best>> \o nearest(coll, query, k - 1, taken \cup {best})

\* vectorstore.similarity_search(query, k): the k most similar records,
\* by rank; all of them when the collection holds fewer than k.
similarity_search(coll, query, k) ==
    LET idx == nearest(coll, query, k, {}) IN
    [n \in 1..Len(idx) |-> coll[idx[n]]]

\* retriever.invoke(question), the retriever of line 25
retriever(coll, question) == similarity_search(coll, question, RETRIEVER_K)

RECURSIVE format_docs_newline(_)
\* Mutant of format_docs: a single newline between the chunks.
format_docs_newline(docs) ==
    IF docs = <<>> THEN ""
    ELSE IF Len(docs) = 1 THEN docs[1].page_content
    ELSE docs[1].page_content \o "\n" \o format_docs_newline(Tail(docs))

RECURSIVE format_docs(_)
\* "\n\n".join(doc.page_content for doc in docs)
format_docs(docs) ==
    IF docs = <<>> THEN ""
    ELSE IF Len(docs) = 1 THEN docs[1].page_content
    ELSE docs[1].page_content \o "\n\n" \o format_docs(Tail(docs))

\* ChatPromptTemplate.from_messages([...]) rendered with context and input
rag_prompt(context, input) ==
    << [role |-> "system",
        content |-> "You are a helpful AI assistant. Use the provided context to answer questions."],
       [role |-> "system", content |-> "Context:\n" \o context],
       [role |-> "human", content |-> input] >>

\* llm | StrOutputParser(): the completion of the prompt by the model at
\* temperature 0, kept symbolic.
llm_completion(model, prompt) ==
    "completion(" \o model \o "|" \o prompt[1].content \o "|"
        \o prompt[2].content \o "|" \o prompt[3].content \o ")"

\* RAGChainWrapper.invoke: {"answer": result}
RAGChainWrapper_invoke(result) == [answer |-> result]

\* result.get("answer", "No answer generated")
result_get_answer(result) ==
    IF "answer" \in DOMAIN result THEN result.answer ELSE "No answer generated"

(* ------------------------------ main_simple --------------------------- *)

VARIABLES
    ragInstalled,             \* whether the RAG packages are installed
    sys_modules,              \* whether langchain_utils and chroma_utils
                              \* have been imported (sys.modules holds them)
    RAG_ENABLED,              \* main_simple.py globals, lines 44-48
    get_rag_chain,
    index_document_to_chroma,
    delete_doc_from_chroma,
    vectorstore,
    collection,               \* the records of chroma_utils.vectorstore
    document_store,           \* rows of table document_store
    next_id,                  \* the AUTOINCREMENT counter of document_store
    application_logs,         \* rows of table application_logs
    reqs,                     \* the requests being handled, by slot
    loop,                     \* slot of the upload running on the event loop, or 0
    sent,                     \* the request answered by the last step, if any
    received,                 \* how many requests have arrived
    uploads_ok,               \* history: uploads answered 200
    uploads_failed,           \* history: file_ids of uploads answered with an error
    rows_deleted              \* history: file_ids whose row /delete-doc deleted

globals == <<RAG_ENABLED, get_rag_chain, index_document_to_chroma,
             delete_doc_from_chroma, vectorstore>>

environment == <<ragInstalled, sys_modules>>

history == <<uploads_ok, uploads_failed, rows_deleted>>

vars == <<ragInstalled, sys_modules, RAG_ENABLED, get_rag_chain,
          index_document_to_chroma,
          delete_doc_from_chroma, vectorstore, collection, document_store,
          next_id, application_logs, reqs, loop, sent, received,
          uploads_ok, uploads_failed, rows_deleted>>

NoDetail == [text |-> "", allowed |-> {}]

\* A request as received: its inputs, and the handler's locals still unset.
NewRequest(kind, pc) ==
    [filename |-> <<>>,        \* UploadFile.filename
     docs |-> <<>>,            \* chat: what the retriever returned;
                               \* upload: the splits of the loader
     file_id |-> 0,            \* upload: assigned; delete: asked
     success |-> FALSE,        \* what the chroma_utils call returned
     question |-> "",          \* QueryInput
     model |-> "",
     prompt |-> <<>>,          \* the messages handed to the model
     answer |-> "",
     kind |-> kind, pc |-> pc,
     contents |-> <<>>,        \* the texts of the uploaded file
     session_id |-> "",        \* QueryInput
     removed |-> 0,            \* records the delete took out of the collection
     index_seen |-> <<>>,      \* the collection as the retriever read it
     failure |-> "",           \* which part of the RAG stack failed, if any
     status |-> 0, detail |-> NoDetail,             \* the HTTP response
     listing |-> <<>>,         \* the body of /list-docs
     rag_enabled |-> FALSE]    \* the body of /health

\* An empty slot, and no request answered.
Idle == NewRequest("idle", "idle")

Slots == 1..MaxInFlight

Init ==
    /\ ragInstalled \in BOOLEAN
    /\ sys_modules = FALSE
    /\ RAG_ENABLED = FALSE
    /\ get_rag_chain = "None"
    /\ index_document_to_chroma = "None"
    /\ delete_doc_from_chroma = "None"
    /\ vectorstore = "None"
    /\ collection = <<>>
    /\ document_store = {}
    /\ next_id = 1
    /\ application_logs = <<>>
    /\ reqs = [i \in Slots |-> Idle]
    /\ loop = 0
    /\ sent = Idle
    /\ received = 0
    /\ uploads_ok = {}
    /\ uploads_failed = {}
    /\ rows_deleted = {}

\* Line 53: lazy_load_rag returns at once ("Already loaded").
lazy_load_rag_loaded == RAG_ENABLED \/ get_rag_chain # "None"

\* A request inside lazy_load_rag, past the test of line 53.
Loading(r) ==
    r.pc \in {"import", "assign1", "assign2", "assign3", "assign4",
              "assign5", "except"}

\* insert_document_record: the row it inserts; its id is cursor.lastrowid.
insert_document_record(store, id, filename) ==
    store \cup {[id |-> id, filename |-> filename]}

\* Mutant of delete_document_record: the row is left in place.
delete_document_record_skipped(store, file_id) == store

\* delete_document_record: DELETE FROM document_store WHERE id = ?
delete_document_record(store, file_id) ==
    { row \in store : row.id # file_id }

RECURSIVE rows_desc(_)
rows_desc(rows) ==
    IF rows = {} THEN <<>>
    ELSE LET top == CHOOSE r \in rows : \A q \in rows : q.id <= r.id
         IN <<top>> \o rows_desc(rows \ {top})

\* get_all_documents: ORDER BY upload_timestamp DESC; a later row has a
\* later timestamp and a larger id.
get_all_documents(store) == rows_desc(store)

\* insert_application_logs
insert_application_logs(logs, session_id, user_query, gpt_response, model) ==
    Append(logs, [session_id |-> session_id, user_query |-> user_query,
                  gpt_response |-> gpt_response, model |-> model])

\* The answer of chat's else branch, line 210.
fallback_answer(question) ==
    "[RAG Mode Disabled] Question: " \o question
      \o "\n\nTo enable full RAG features, install: pip install langchain-community langchain-chroma python-docx pypdf"

\* The detail of the HTTPException of lines 247-250; Python joins the set
\* in no fixed order, so the allowed extensions are kept as a set.
unsupported_detail(file_ext) ==
    [text |-> "Unsupported file type: " \o ToStr(file_ext) \o ". Allowed: ",
     allowed |-> allowed_extensions]

Detail(text) == [text |-> text, allowed |-> {}]

CanReceive ==
    /\ received < MaxRequests
    /\ \E i \in Slots : reqs[i].kind = "idle"

\* The slot a new request takes.
FreeSlot == CHOOSE i \in Slots :
               /\ reqs[i].kind = "idle"
               /\ \A j \in Slots : reqs[j].kind = "idle" => i <= j

\* The request of slot i is answered with r and leaves.
Answer(i, r) ==
    /\ reqs' = [reqs EXCEPT ![i] = Idle]
    /\ sent' = [r EXCEPT !.pc = "done"]

\* A step that answers no request.
NoAnswer == sent' = Idle

(* --------------------------- lazy_load_rag ---------------------------- *)

\* lazy_load_rag runs in the thread of the request that calls it: a
\* worker thread for /chat and /delete-doc, the event loop for
\* /upload-doc.  Nothing serialises the calls, so each statement below is
\* a step of its own.

\* Line 53, for /chat and /delete-doc: neither RAG_ENABLED nor
\* get_rag_chain is set, the call goes on to the imports.
lazy_load_rag_enter(i) ==
    /\ reqs[i].kind \in {"chat", "delete"} /\ reqs[i].pc = "start"
    /\ ~lazy_load_rag_loaded
    /\ reqs' = [reqs EXCEPT ![i].pc = "import"]
    /\ NoAnswer
    /\ UNCHANGED <<environment, globals, collection, document_store, next_id,
                   application_logs, loop, received, history>>

\* Lines 58-59: the imports return (the modules are now in sys.modules),
\* or raise ImportError because the packages are not installed.
lazy_load_rag_import(i) ==
    /\ reqs[i].pc = "import"
    /\ reqs' = [reqs EXCEPT ![i].pc =
                    IF ragInstalled THEN "assign1" ELSE "except"]
    /\ sys_modules' = ragInstalled
    /\ NoAnswer
    /\ UNCHANGED <<ragInstalled, globals, collection, document_store,
                   next_id, application_logs, loop, received, history>>

\* Lines 58-59 raise although the packages are installed: importing
\* chroma_utils builds the embedding function and the vector store (lines
\* 14-22 there), which can fail for a reason that does not last.  Once
\* the modules are in sys.modules the imports only look them up.
lazy_load_rag_import_fault(i) ==
    /\ reqs[i].pc = "import"
    /\ ragInstalled /\ ~sys_modules
    /\ reqs' = [reqs EXCEPT ![i].pc = "except"]
    /\ NoAnswer
    /\ UNCHANGED <<environment, globals, collection, document_store, next_id,
                   application_logs, loop, received, history>>

\* Lines 60-64, one assignment per step.
lazy_load_rag_assign(i) ==
    /\ reqs[i].pc \in {"assign1", "assign2", "assign3", "assign4", "assign5"}
    /\ get_rag_chain' =
          IF reqs[i].pc = "assign1" THEN "loaded" ELSE get_rag_chain
    /\ index_document_to_chroma' =
          IF reqs[i].pc = "assign2" THEN "loaded" ELSE index_document_to_chroma
    /\ delete_doc_from_chroma' =
          IF reqs[i].pc = "assign3" THEN "loaded" ELSE delete_doc_from_chroma
    /\ vectorstore' =
          IF reqs[i].pc = "assign4" THEN "loaded" ELSE vectorstore
    /\ RAG_ENABLED' =
          IF reqs[i].pc = "assign5" THEN TRUE ELSE RAG_ENABLED
    /\ reqs' = [reqs EXCEPT ![i].pc =
          CASE @ = "assign1" -> "assign2"
            [] @ = "assign2" -> "assign3"
            [] @ = "assign3" -> "assign4"
            [] @ = "assign4" -> "assign5"
            [] @ = "assign5" -> "loaded"]
    /\ NoAnswer
    /\ UNCHANGED <<environment, collection, document_store, next_id,
                   application_logs, loop, received, history>>

\* Lines 66-73: either except branch sets RAG_ENABLED = False.
lazy_load_rag_except(i) ==
    /\ reqs[i].pc = "except"
    /\ RAG_ENABLED' = FALSE
    /\ reqs' = [reqs EXCEPT ![i].pc = "loaded"]
    /\ NoAnswer
    /\ UNCHANGED <<environment, get_rag_chain, index_document_to_chroma,
                   delete_doc_from_chroma, vectorstore, collection,
                   document_store, next_id, application_logs, loop, received,
                   history>>

(* ------------------------- POST /upload-doc --------------------------- *)

\* The check of lines 245-246.
extension_allowed(filename) ==
    Lower(splitext_ext(filename)) \in allowed_extensions

\* Lines 234-250, after lazy_load_rag has returned: the HTTPException the
\* checks raise, or status 0 when the request passes them all.
upload_document_checks(r) ==
    IF ~RAG_ENABLED
    THEN [status |-> 503,
          detail |-> Detail("Document upload is not available. RAG features not initialized.")]
    ELSE IF r.filename = <<>>
    THEN [status |-> 400, detail |-> Detail("No file provided")]
    ELSE IF ~extension_allowed(r.filename)
    THEN [status |-> 400,
          detail |-> unsupported_detail(Lower(splitext_ext(r.filename)))]
    ELSE [status |-> 0, detail |-> NoDetail]

\* Lines 227-258: the request arrives on the event loop.  When
\* lazy_load_rag returns at once, the checks follow in the same turn of
\* the loop: a request that fails one is answered, the others reach
\* `await file.read()`, which hands the loop back.  Otherwise the handler
\* goes on into the imports of lazy_load_rag, and keeps the loop while it
\* does.
upload_document_begin(filename) ==
    /\ CanReceive
    /\ loop = 0
    /\ received' = received + 1
    /\ LET r == [NewRequest("upload", "start") EXCEPT !.filename = filename]
           raised == upload_document_checks(r)
       IN IF ~lazy_load_rag_loaded
          THEN /\ reqs' = [reqs EXCEPT ![FreeSlot] = [r EXCEPT !.pc = "import"]]
               /\ loop' = FreeSlot
               /\ NoAnswer
          ELSE IF raised.status # 0
          THEN /\ sent' = [r EXCEPT !.pc = "done", !.status = raised.status,
                                    !.detail = raised.detail]
               /\ UNCHANGED <<reqs, loop>>
          ELSE /\ reqs' = [reqs EXCEPT ![FreeSlot] =
                              [r EXCEPT !.pc = "await_read"]]
               /\ NoAnswer
               /\ UNCHANGED loop
    /\ UNCHANGED <<environment, globals, collection, document_store, next_id,
                   application_logs, history>>

\* Lines 234-258 for an upload whose lazy_load_rag call did the loading;
\* the loop is released by the answer or by the await.
upload_document_loaded(i) ==
    /\ reqs[i].kind = "upload" /\ reqs[i].pc = "loaded"
    /\ loop' = 0
    /\ LET raised == upload_document_checks(reqs[i])
       IN IF raised.status # 0
          THEN Answer(i, [reqs[i] EXCEPT !.status = raised.status,
                                         !.detail = raised.detail])
          ELSE /\ reqs' = [reqs EXCEPT ![i].pc = "await_read"]
               /\ NoAnswer
    /\ UNCHANGED <<environment, globals, collection, document_store, next_id,
                   application_logs, received, history>>

\* Lines 258-277: the bytes of the file arrive and the handler resumes on
\* the loop, which it keeps until it returns.  It writes the bytes to
\* uploads/<filename>, inserts the document row and enters
\* index_document_to_chroma.  The file is read back (line 47) in the same
\* turn, so the loader sees these bytes.
upload_document_resume(i, units) ==
    /\ reqs[i].kind = "upload" /\ reqs[i].pc = "await_read"
    /\ units \in FileContents(reqs[i].filename)
    /\ loop = 0
    /\ loop' = i
    /\ document_store' =
          insert_document_record(document_store, next_id, reqs[i].filename)
    /\ next_id' = next_id + 1
    /\ reqs' = [reqs EXCEPT ![i].contents = units, ![i].file_id = next_id,
                            ![i].pc = "indexing"]
    /\ NoAnswer
    /\ UNCHANGED <<environment, globals, collection, application_logs,
                   received, history>>

\* Line 277: index_document_to_chroma returns.
upload_document_index(i) ==
    /\ reqs[i].kind = "upload" /\ reqs[i].pc = "indexing"
    /\ LET out == index_document_to_chroma_impl(collection,
                     upload_path(reqs[i].filename), reqs[i].contents,
                     reqs[i].file_id)
       IN /\ collection' = out.collection
          /\ reqs' = [reqs EXCEPT ![i].success = out.success,
                                  ![i].docs = out.splits,
                                  ![i].pc = "indexed"]
    /\ NoAnswer
    /\ UNCHANGED <<environment, globals, document_store, next_id,
                   application_logs, loop, received, history>>

\* Line 277, when a call inside index_document_to_chroma raises.
upload_document_index_fault(i) ==
    /\ reqs[i].kind = "upload" /\ reqs[i].pc = "indexing"
    /\ \E out \in index_document_to_chroma_fault(collection,
                     upload_path(reqs[i].filename), reqs[i].contents,
                     reqs[i].file_id) :
          /\ collection' = out.collection
          /\ reqs' = [reqs EXCEPT ![i].success = out.success,
                                  ![i].docs = out.splits,
                                  ![i].pc = "indexed"]
    /\ NoAnswer
    /\ UNCHANGED <<environment, globals, document_store, next_id,
                   application_logs, loop, received, history>>

\* Lines 287-296: 200 with the file_id, or the row removed and 400.  (The
\* except branch of lines 279-285 cannot run: index_document_to_chroma
\* catches every Exception itself.)  The loop is free again.
upload_document_finish(i) ==
    /\ reqs[i].kind = "upload" /\ reqs[i].pc = "indexed"
    /\ loop' = 0
    /\ IF reqs[i].success
       THEN /\ Answer(i, [reqs[i] EXCEPT !.status = 200,
                  !.detail = Detail("Document uploaded and indexed successfully")])
            /\ uploads_ok' = uploads_ok \cup
                  {[file_id |-> reqs[i].file_id, filename |-> reqs[i].filename]}
            /\ UNCHANGED <<document_store, uploads_failed>>
       ELSE /\ document_store' =
                  delete_document_record(document_store, reqs[i].file_id)
            /\ Answer(i, [reqs[i] EXCEPT !.status = 400,
                  !.detail = Detail("Failed to index document")])
            /\ uploads_failed' = uploads_failed \cup {reqs[i].file_id}
            /\ UNCHANGED uploads_ok
    /\ UNCHANGED <<environment, globals, collection, next_id,
                   application_logs, received, rows_deleted>>

(* ---------------- handlers run on worker threads ---------------------- *)

\* The event loop accepts a request for a `def` handler and hands it to a
\* worker thread.
accept(r) ==
    /\ CanReceive
    /\ loop = 0
    /\ received' = received + 1
    /\ reqs' = [reqs EXCEPT ![FreeSlot] = r]
    /\ NoAnswer
    /\ UNCHANGED <<environment, globals, collection, document_store,
                   next_id, application_logs, loop, history>>

accept_chat(question, session_id, model) ==
    accept([NewRequest("chat", "start") EXCEPT
               !.question = question, !.session_id = session_id,
               !.model = model])

accept_delete(file_id) ==
    accept([NewRequest("delete", "start") EXCEPT !.file_id = file_id])

accept_list == accept(NewRequest("list", "start"))

accept_health == accept(NewRequest("health", "start"))

\* The event loop sends the response a worker thread produced.
send_response(i) ==
    /\ reqs[i].pc = "respond"
    /\ loop = 0
    /\ Answer(i, reqs[i])
    /\ UNCHANGED <<environment, globals, collection, document_store,
                   next_id, application_logs, loop, received, history>>

(* ----------------------------- POST /chat ------------------------------ *)

\* Lines 183-191 and 207-210: the session id, lazy_load_rag, and the
\* fallback text in place of an answer when RAG_ENABLED is false.
chat_start(i) ==
    /\ reqs[i].kind = "chat"
    /\ \/ reqs[i].pc = "start" /\ lazy_load_rag_loaded
       \/ reqs[i].pc = "loaded"
    /\ \E u \in UUIDs :
         LET sid == IF reqs[i].session_id # "" THEN reqs[i].session_id ELSE u
         IN reqs' = [reqs EXCEPT ![i] =
              IF RAG_ENABLED
              THEN [@ EXCEPT !.session_id = sid, !.pc = "chain"]
              ELSE [@ EXCEPT !.session_id = sid, !.failure = "load",
                             !.answer = fallback_answer(reqs[i].question),
                             !.pc = "log"]]
    /\ NoAnswer
    /\ UNCHANGED <<environment, globals, collection, document_store, next_id,
                   application_logs, loop, received, history>>

RECURSIVE history_text(_)
history_text(logs) ==
    IF logs = <<>> THEN ""
    ELSE "\n\nEarlier: " \o Head(logs).user_query \o " -> "
            \o Head(logs).session_id \o history_text(Tail(logs))

\* Mutant of chain_prompt: the logged turns are threaded into the prompt.
chain_prompt_with_history(docs, question) ==
    rag_prompt(format_docs(docs) \o history_text(application_logs), question)

\* The prompt the chain of get_rag_chain renders for a question: the
\* retriever's documents, formatted, and the question passed through.
chain_prompt(docs, question) == rag_prompt(format_docs(docs), question)

\* Lines 195-199, first half of rag_chain.invoke: retriever | format_docs
\* and the prompt.
chat_retrieve(i) ==
    /\ reqs[i].kind = "chat" /\ reqs[i].pc = "chain"
    /\ LET docs == retriever(collection, reqs[i].question)
       IN reqs' = [reqs EXCEPT ![i].index_seen = collection,
                               ![i].docs = docs,
                               ![i].prompt = chain_prompt(docs, reqs[i].question),
                               ![i].pc = "llm"]
    /\ NoAnswer
    /\ UNCHANGED <<environment, globals, collection, document_store,
                   next_id, application_logs, loop, received, history>>

\* The 500 of lines 218-222, with nothing logged.
chat_error(r, failure) ==
    [r EXCEPT !.failure = failure, !.status = 500,
              !.detail = Detail("Error processing query: " \o failure),
              !.pc = "respond"]

\* Retrieval raises: lines 202-206 re-raise.
chat_retrieve_raise(i) ==
    /\ reqs[i].kind = "chat" /\ reqs[i].pc = "chain"
    /\ reqs' = [reqs EXCEPT ![i] = chat_error(@, "retrieval")]
    /\ NoAnswer
    /\ UNCHANGED <<environment, globals, collection, document_store,
                   next_id, application_logs, loop, received, history>>

\* Lines 199-200, second half of rag_chain.invoke: the model call, the
\* wrapper's dict, and result.get("answer", ...).
chat_llm(i) ==
    /\ reqs[i].kind = "chat" /\ reqs[i].pc = "llm"
    /\ reqs' = [reqs EXCEPT
          ![i].answer = result_get_answer(RAGChainWrapper_invoke(
                            llm_completion(reqs[i].model, reqs[i].prompt))),
          ![i].pc = "log"]
    /\ NoAnswer
    /\ UNCHANGED <<environment, globals, collection, document_store,
                   next_id, application_logs, loop, received, history>>

\* The model call raises.
chat_llm_raise(i) ==
    /\ reqs[i].kind = "chat" /\ reqs[i].pc = "llm"
    /\ reqs' = [reqs EXCEPT ![i] = chat_error(@, "llm")]
    /\ NoAnswer
    /\ UNCHANGED <<environment, globals, collection, document_store,
                   next_id, application_logs, loop, received, history>>

\* Lines 213-216: the row in application_logs and the QueryResponse.
chat_log(i) ==
    /\ reqs[i].kind = "chat" /\ reqs[i].pc = "log"
    /\ application_logs' = insert_application_logs(application_logs,
          reqs[i].session_id, reqs[i].question, reqs[i].answer, reqs[i].model)
    /\ reqs' = [reqs EXCEPT ![i].status = 200, ![i].pc = "respond"]
    /\ NoAnswer
    /\ UNCHANGED <<environment, globals, collection, document_store,
                   next_id, loop, received, history>>

(* -------------------------- POST /delete-doc -------------------------- *)

\* Lines 320-326
delete_document_start(i) ==
    /\ reqs[i].kind = "delete"
    /\ \/ reqs[i].pc = "start" /\ lazy_load_rag_loaded
       \/ reqs[i].pc = "loaded"
    /\ reqs' = [reqs EXCEPT ![i] =
          IF RAG_ENABLED
          THEN [@ EXCEPT !.pc = "chroma"]
          ELSE [@ EXCEPT !.status = 503, !.pc = "respond",
                  !.detail = Detail("Document deletion is not available. RAG features not initialized.")]]
    /\ NoAnswer
    /\ UNCHANGED <<environment, globals, collection, document_store, next_id,
                   application_logs, loop, received, history>>

\* Line 329
delete_document_chroma(i) ==
    /\ reqs[i].kind = "delete" /\ reqs[i].pc = "chroma"
    /\ LET out == delete_doc_from_chroma_impl(collection, reqs[i].file_id)
       IN /\ collection' = out.collection
          /\ reqs' = [reqs EXCEPT ![i].success = out.success,
                         ![i].removed = Len(collection) - Len(out.collection),
                         ![i].pc = "record"]
    /\ NoAnswer
    /\ UNCHANGED <<environment, globals, document_store, next_id,
                   application_logs, loop, received, history>>

\* Lines 332-336
delete_document_finish(i) ==
    /\ reqs[i].kind = "delete" /\ reqs[i].pc = "record"
    /\ IF reqs[i].success
       THEN /\ document_store' =
                  delete_document_record(document_store, reqs[i].file_id)
            /\ rows_deleted' = rows_deleted \cup {reqs[i].file_id}
            /\ reqs' = [reqs EXCEPT ![i].status = 200, ![i].pc = "respond",
                          ![i].detail = Detail("Document deleted successfully")]
       ELSE /\ reqs' = [reqs EXCEPT ![i].status = 400, ![i].pc = "respond",
                          ![i].detail = Detail("Failed to delete document from vector store")]
            /\ UNCHANGED <<document_store, rows_deleted>>
    /\ NoAnswer
    /\ UNCHANGED <<environment, globals, collection, next_id,
                   application_logs, loop, received, uploads_ok,
                   uploads_failed>>

(* ---------------------- GET /list-docs, GET /health ------------------- *)

\* Lines 307-311
list_documents(i) ==
    /\ reqs[i].kind = "list" /\ reqs[i].pc = "start"
    /\ reqs' = [reqs EXCEPT ![i].listing = get_all_documents(document_store),
                            ![i].status = 200, ![i].pc = "respond"]
    /\ NoAnswer
    /\ UNCHANGED <<environment, globals, collection, document_store,
                   next_id, application_logs, loop, received, history>>

\* Lines 344-346: reads RAG_ENABLED, never calls lazy_load_rag.
health(i) ==
    /\ reqs[i].kind = "health" /\ reqs[i].pc = "start"
    /\ reqs' = [reqs EXCEPT ![i].rag_enabled = RAG_ENABLED,
                            ![i].status = 200, ![i].pc = "respond"]
    /\ NoAnswer
    /\ UNCHANGED <<environment, globals, collection, document_store,
                   next_id, application_logs, loop, received, history>>

(* --------------------------- specifications --------------------------- *)

\* Every step but the one where a call inside index_document_to_chroma
\* raises.
NextNoFault ==
    \/ \E i \in Slots : lazy_load_rag_enter(i)
    \/ \E i \in Slots : lazy_load_rag_import(i)
    \/ \E i \in Slots : lazy_load_rag_assign(i)
    \/ \E i \in Slots : lazy_load_rag_except(i)
    \/ \E f \in FileNames : upload_document_begin(f)
    \/ \E i \in Slots : upload_document_loaded(i)
    \/ \E i \in Slots, u \in Contents : upload_document_resume(i, u)
    \/ \E i \in Slots : upload_document_index(i)
    \/ \E i \in Slots : upload_document_finish(i)
    \/ \E q \in Questions, s \in SessionInputs, m \in Models :
          accept_chat(q, s, m)
    \/ \E i \in Slots : chat_start(i)
    \/ \E i \in Slots : chat_retrieve(i)
    \/ \E i \in Slots : chat_retrieve_raise(i)
    \/ \E i \in Slots : chat_llm(i)
    \/ \E i \in Slots : chat_llm_raise(i)
    \/ \E i \in Slots : chat_log(i)
    \/ \E d \in DeleteIds : accept_delete(d)
    \/ \E i \in Slots : delete_document_start(i)
    \/ \E i \in Slots : delete_document_chroma(i)
    \/ \E i \in Slots : delete_document_finish(i)
    \/ accept_list
    \/ \E i \in Slots : list_documents(i)
    \/ accept_health
    \/ \E i \in Slots : health(i)
    \/ \E i \in Slots : send_response(i)

Next ==
    \/ NextNoFault
    \/ \E i \in Slots : upload_document_index_fault(i)
    \/ \E i \in Slots : lazy_load_rag_import_fault(i)

Spec == Init /\ [][Next]_vars

\* The service when the loader, the embedding function and the vector
\* store never raise, and the imports of lazy_load_rag fail only when the
\* packages are missing.
SpecNoFault == Init /\ [][NextNoFault]_vars

(* ------------------------------- claims ------------------------------- *)

FileIds == 1..MaxRequests

\* The records of the collection that carry file_id d, in stored order.
records_of(coll, d) == SelectSeq(coll, LAMBDA r : r.metadata.file_id = d)

\* Every request that is being handled or was answered by the last step.
Visible == { reqs[i] : i \in Slots } \cup {sent}

\* Slot i runs line 329 (delete_doc_from_chroma) in this step.
DeleteStep(i) ==
    /\ reqs[i].kind = "delete" /\ reqs[i].pc = "chroma"
    /\ reqs'[i].pc = "record"

\* C1  Deletion scoping: when delete_doc_from_chroma(a) returns, the
\* collection holds no record with file_id a, the records of every other
\* file_id b are what they were before, and a search with k as large as
\* the collection returns all of b's chunks and none of a's.
C1_DeletionScoping ==
    [][\A i \in Slots : DeleteStep(i) =>
         LET a == reqs[i].file_id IN
         /\ records_of(collection', a) = <<>>
         /\ \A b \in FileIds \ {a} :
               records_of(collection', b) = records_of(collection, b)
         /\ \A q \in Questions :
               LET found == similarity_search(collection', q, Len(collection'))
               IN /\ records_of(found, a) = <<>>
                  /\ \A b \in FileIds \ {a} :
                        Len(records_of(found, b)) = Len(records_of(collection, b))
      ]_vars

\* A delete that took records of its file_id out while another file's
\* records are in the collection.
C1_Witness ==
    \E r \in Visible :
        /\ r.kind = "delete" /\ r.removed > 0
        /\ records_of(collection, r.file_id) = <<>>
        /\ \E b \in FileIds \ {r.file_id} : Len(records_of(collection, b)) >= 2

\* C4  Idempotent delete: delete_doc_from_chroma(d) returns success also
\* when no record carries d, and then leaves the collection as it is;
\* called again right after a delete of d it returns success again and
\* the collection stays what the first call left.
C4_IdempotentDelete ==
    [][\A i \in Slots : DeleteStep(i) =>
         LET d == reqs[i].file_id
             again == delete_doc_from_chroma_impl(collection', d)
         IN /\ reqs'[i].success
            /\ records_of(collection, d) = <<>> => collection' = collection
            /\ again.success
            /\ again.collection = collection'
      ]_vars

\* Two deletes of the same file_id have run: one took its records out, the
\* other found none, returned success and left records of another file.
C4_Witness ==
    \E i, j \in Slots :
        /\ i # j
        /\ reqs[i].kind = "delete" /\ reqs[j].kind = "delete"
        /\ reqs[i].file_id = reqs[j].file_id
        /\ reqs[i].removed > 0
        /\ reqs[j].pc \in {"record", "respond"}
        /\ reqs[j].removed = 0 /\ reqs[j].success

\* An upload at the point where index_document_to_chroma has returned
\* False for the file_id its row was given.
IngestionFailed(r) ==
    /\ r.kind = "upload" /\ r.file_id # 0
    /\ r.pc \in {"indexed", "done"}
    /\ ~r.success

\* C2  Ingestion is all-or-nothing: whenever the ingestion of document d
\* has ended in failure (index_document_to_chroma returned False, and so
\* whenever /upload-doc answered with an error after the row was
\* created), the collection holds no record with file_id d.
C2_AllOrNothing ==
    /\ \A r \in Visible :
          IngestionFailed(r) => records_of(collection, r.file_id) = <<>>
    /\ \A d \in uploads_failed : records_of(collection, d) = <<>>

\* C3  Cascade between the two stores: once no request is being handled,
\* every record of the collection carries a file_id that has a row in
\* document_store.
C3_Cascade ==
    (\A i \in Slots : reqs[i].kind = "idle") =>
        \A n \in 1..Len(collection) :
            \E row \in document_store :
                row.id = collection[n].metadata.file_id

\* C6  Query failure is always reported: a /chat request for which the RAG
\* stack could not produce an answer (load failed, retrieval raised, model
\* call raised) never ends with a success response, and no text standing
\* in for an answer is written to application_logs.
C6_QueryFailureReported ==
    /\ \A r \in Visible :
          (r.kind = "chat" /\ r.failure # "" /\ r.status # 0) => r.status >= 400
    /\ \A n \in 1..Len(application_logs) :
          application_logs[n].gpt_response
              # fallback_answer(application_logs[n].user_query)

\* An upload is inside index_document_to_chroma, or a chat inside its
\* model call.
InSlowCall(r) ==
    \/ r.kind = "upload" /\ r.pc = "indexing"
    \/ r.kind = "chat" /\ r.pc = "llm"

\* C7  A slow embedding or model call of one request does not stall the
\* others: while a request is inside that call, a new request of any kind
\* can be accepted (as long as the model's bounds leave room for one) and
\* every response that is ready can be sent.
C7_NoStall ==
    (\E i \in Slots : InSlowCall(reqs[i])) =>
        /\ (received < MaxRequests /\ \E j \in Slots : reqs[j].kind = "idle") =>
              /\ ENABLED accept_health
              /\ ENABLED accept_list
              /\ \A d \in DeleteIds : ENABLED accept_delete(d)
              /\ \A q \in Questions, s \in SessionInputs, m \in Models :
                    ENABLED accept_chat(q, s, m)
              /\ \A f \in FileNames : ENABLED upload_document_begin(f)
        /\ \A j \in Slots : reqs[j].pc = "respond" => ENABLED send_response(j)

\* The four extensions the service ingests.
IngestibleExtensions ==
    { <<".", "p", "d", "f">>, <<".", "d", "o", "c", "x">>,
      <<".", "h", "t", "m", "l">>, <<".", "t", "x", "t">> }

\* The extension of the name, letter case aside, is none of the four.
ForeignExtension(filename) ==
    Lower(splitext_ext(filename)) \notin IngestibleExtensions

\* C5  Unsupported format: an upload of a file whose extension is not one
\* of pdf, docx, html, txt leaves the collection (and document_store) as
\* it was and is never given a file_id; once the RAG components are there
\* to ingest anything at all, it is answered 400 "Unsupported file type"
\* with the rejected extension in the detail.  The loader itself raises
\* on such a path, and index_document_to_chroma then reports failure with
\* the collection unchanged.
C5_UnsupportedFormat ==
    [][(sent'.kind = "upload" /\ ForeignExtension(sent'.filename)) =>
         /\ collection' = collection
         /\ document_store' = document_store
         /\ sent'.file_id = 0
         /\ sent'.status >= 400
         /\ RAG_ENABLED' =>
               /\ sent'.status = 400
               /\ sent'.detail.text =
                     "Unsupported file type: "
                        \o ToStr(Lower(splitext_ext(sent'.filename)))
                        \o ". Allowed: "
               /\ sent'.detail.allowed = IngestibleExtensions
         /\ \A units \in Contents, d \in FileIds :
               LET path == upload_path(sent'.filename) IN
               /\ load_and_split_document(path, units).raised
               /\ load_and_split_document(path, units).error
                     = "Unsupported file type: uploads/"
                          \o ToStr(sent'.filename)
               /\ index_document_to_chroma_impl(collection, path, units, d)
                     = [success |-> FALSE, collection |-> collection,
                        splits |-> <<>>]
      ]_vars

\* An a.xyz upload was just refused with 400 while the collection and
\* document_store hold an earlier document.
C5_Witness ==
    /\ sent.kind = "upload" /\ ForeignExtension(sent.filename)
    /\ sent.status = 400
    /\ collection # <<>>
    /\ document_store # {}

\* Chats whose prompt has been rendered.
Prompted ==
    { r \in Visible : r.kind = "chat" /\ r.prompt # <<>> }

\* Rank of record i of coll for a query: 1 + the number of records that
\* are nearer, or as near and inserted earlier.
RankOf(coll, query, i) ==
    1 + Cardinality({ j \in 1..Len(coll) :
          \/ distance(query, coll[j].page_content)
                < distance(query, coll[i].page_content)
          \/ /\ distance(query, coll[j].page_content)
                  = distance(query, coll[i].page_content)
             /\ j < i })

\* C8  Context assembly: the context placed in the prompt is the text of
\* the chunks the retriever returned with k = 2 (two chunks, fewer only
\* when the collection holds fewer), in rank order, joined with "\n\n";
\* the answer is the model's completion of that prompt, unchanged.
C8_ContextAssembly ==
    \A r \in Prompted :
        LET n == IF Len(r.index_seen) < 2 THEN Len(r.index_seen) ELSE 2
            text(k) == r.docs[k].page_content
        IN /\ Len(r.docs) = n
           /\ \A k \in 1..n : \E i \in 1..Len(r.index_seen) :
                 /\ RankOf(r.index_seen, r.question, i) = k
                 /\ r.docs[k] = r.index_seen[i]
           /\ Len(r.prompt) = 3
           /\ r.prompt[2].content =
                 "Context:\n" \o (IF n = 0 THEN ""
                                  ELSE IF n = 1 THEN text(1)
                                  ELSE text(1) \o "\n\n" \o text(2))
           /\ r.prompt[3] = [role |-> "human", content |-> r.question]
           /\ (r.failure = "" /\ r.pc \in {"log", "respond", "done"}) =>
                 r.answer = llm_completion(r.model, r.prompt)

\* A chat answered from a collection of three or more records, its two
\* chunks differing and ranked against the order they were stored in.
C8_Witness ==
    \E r \in Prompted :
        /\ Len(r.index_seen) >= 3
        /\ Len(r.docs) = 2
        /\ r.docs[1] # r.index_seen[1]
        /\ r.docs[1].page_content # r.docs[2].page_content
        /\ r.status = 200

\* C9  No chat history reaches the prompt: two /chat requests with the
\* same question and model that read the same collection are handed the
\* same prompt, whatever their session ids and whatever was logged before
\* either prompt was rendered.
C9_NoHistoryInPrompt ==
    \A r1, r2 \in Prompted :
        (/\ r1.question = r2.question
         /\ r1.model = r2.model
         /\ r1.index_seen = r2.index_seen) => r1.prompt = r2.prompt

\* Two chats of different sessions asked the same question over the same
\* non-empty collection; the first was logged, the second rendered its
\* prompt after that row was written.
C9_Witness ==
    \E i, j \in Slots :
        /\ i # j
        /\ reqs[i] \in Prompted /\ reqs[j] \in Prompted
        /\ reqs[i].pc = "respond" /\ reqs[i].status = 200
        /\ reqs[j].pc = "llm"
        /\ reqs[i].session_id # reqs[j].session_id
        /\ reqs[i].question = reqs[j].question
        /\ reqs[i].index_seen = reqs[j].index_seen
        /\ reqs[i].index_seen # <<>>
        /\ Len(application_logs) = 1
        /\ application_logs[1].session_id = reqs[i].session_id

SplitTextFiles ==
    { r \in Visible :
        /\ r.kind = "upload" /\ r.pc \in {"indexed", "done"}
        /\ r.file_id # 0
        /\ endswith(upload_path(r.filename), EXT_TXT) }

\* C11  Short-input chunking: for a text file whose text is shorter than
\* chunk_size = 1000 characters, the chunker yields exactly one chunk, and
\* that chunk is the text of the file.
C11_ShortInputChunking ==
    \A r \in SplitTextFiles :
        Len(r.contents[1]) < chunk_size =>
            /\ Len(r.docs) = 1
            /\ r.docs[1].page_content = ToStr(r.contents[1])

\* Uploads that passed the extension check of /upload-doc and for which
\* index_document_to_chroma has returned.
AcceptedUploads ==
    { r \in Visible :
        /\ r.kind = "upload" /\ r.pc \in {"indexed", "done"}
        /\ r.file_id # 0
        /\ extension_allowed(r.filename) }

\* C13  Extension checks agree: every file name that passes the allow-list
\* check of /upload-doc (extension compared case-insensitively) is
\* dispatched to a loader by load_and_split_document; no accepted upload
\* fails in the loader with "Unsupported file type".
C13_ExtensionChecksAgree ==
    \A r \in AcceptedUploads :
        ~load_and_split_document(upload_path(r.filename), r.contents).raised

\* RAG_ENABLED is false, or all four handles are set.
HandlesSet ==
    RAG_ENABLED =>
        /\ get_rag_chain # "None"
        /\ index_document_to_chroma # "None"
        /\ delete_doc_from_chroma # "None"
        /\ vectorstore # "None"

\* C12  RAG loader lifecycle: under any interleaving of the requests that
\* call lazy_load_rag, RAG_ENABLED implies that get_rag_chain,
\* index_document_to_chroma, delete_doc_from_chroma and vectorstore are
\* all set; once RAG_ENABLED is true it never becomes false again; while
\* it is true, the five globals are changed by no lazy_load_rag call other
\* than one that was already past the test of line 53; and no step of a
\* /health request changes any of the five.
C12_LoaderLifecycle ==
    [][/\ HandlesSet /\ HandlesSet'
       /\ RAG_ENABLED => RAG_ENABLED'
       /\ (RAG_ENABLED /\ globals' # globals) =>
             \E i \in Slots : Loading(reqs[i]) /\ reqs'[i] # reqs[i]
       /\ (\E i \in Slots :
              /\ reqs'[i] # reqs[i]
              /\ reqs[i].kind = "health" \/ reqs'[i].kind = "health") =>
             globals' = globals
      ]_vars

====
